---- MODULE Spec2Model ----
(***************************************************************************)
(* CodeReplay: an editor-session recorder / replayer (a VS Code            *)
(* extension).  src/src/extension.ts holds three revisions of the          *)
(* extension one after the other, src/unnamed/part_000 a fourth:           *)
(*   "cloned"   extension.ts   1-148  replay into (playback) clone files,  *)
(*                                    listeners skip untitled documents     *)
(*   "inplace"  extension.ts 327-451  replay into the recorded files,      *)
(*                                    listeners take every document         *)
(*   "capture"  part_000       1-67   recording only, no replay             *)
(* (extension.ts 149-326 is the "cloned" revision plus status-bar          *)
(* buttons.)  The variable rev says which revision runs; it never changes. *)
(*                                                                         *)
(* Documents hold one line of text, a sequence of characters; a Position   *)
(* is [line |-> 0, character |-> c].  A resource identifier (vscode.Uri)   *)
(* is the record of its parts [scheme, dir, name, ext, n], the name a      *)
(* sequence of pieces so that "(playback)" can be appended to it, n the    *)
(* number the host gives an untitled document.                             *)
(***************************************************************************)
EXTENDS Integers, Sequences, FiniteSets, TLC

(* ------------------------------ bounds -------------------------------- *)

\* longest event log
MaxLog == 3
\* longest text the user makes a document hold
MaxDocLen == 2
\* content changes bundled in one text-change notification
MaxChanges == 2
\* things the user does to the documents in one run (text changes, focus
\* changes, deletions)
MaxHostEvents == 2
\* startPlayback commands in one run, for each replay that can be in progress
MaxPlaybacks == 1
\* replays that can be in progress at a time (SpecTwo)
MaxConcurrent == 2
\* things the user does to the documents in one recorded session (SpecSession)
MaxSessionEvents == 3

(* --------------------------- the host's world -------------------------- *)

\* the texts one content change inserts
Texts == {<<>>, <<"y">>}

None == [scheme |-> "none", dir |-> "", name |-> <<>>, ext |-> "", n |-> 0]

WorkspaceRoot == "/w"

FileA == [scheme |-> "file", dir |-> "/w", name |-> <<"a">>, ext |-> ".ts", n |-> 0]

\* same base name as FileA, in another directory
FileB == [scheme |-> "file", dir |-> "/w/sub", name |-> <<"a">>, ext |-> ".ts", n |-> 0]

\* the user's own untitled (unsaved) document
FileU == [scheme |-> "untitled", dir |-> "", name |-> <<"Untitled">>, ext |-> "", n |-> 0]

SavedFiles == {FileA, FileB}

UserDocs == SavedFiles \cup {FileU}

\* the k-th document openTextDocument({content: ''}) creates, "Untitled-k"
Untitled(k) == [scheme |-> "untitled", dir |-> "", name |-> <<"Untitled">>, ext |-> "", n |-> k]

\* vscode.TextDocument.isUntitled
isUntitled(d) == d.scheme = "untitled"

Pos(c) == [line |-> 0, character |-> c]

Min(a, b) == IF a < b THEN a ELSE b

\* the host replaces [s, e) of content c by text t; positions past the end
\* of the line are clamped to it (TextDocument.validateRange)
Splice(c, s, e, t) ==
    LET s1 == Min(s, Len(c))
        e1 == Min(e, Len(c))
    IN  SubSeq(c, 1, s1) \o t \o SubSeq(c, e1 + 1, Len(c))

\* one TextDocumentContentChangeEvent: the range before the change, the
\* inserted text, the length of the replaced text
Change(s, e, t) == [range |-> [start |-> Pos(s), end |-> Pos(e)], text |-> t, rangeLength |-> e - s]

\* the content changes the host can make to content c
ChangesOf(c) ==
    { Change(s, e, t) : <<s, e, t>> \in
        { x \in (0..Len(c)) \X (0..Len(c)) \X Texts :
            /\ x[1] <= x[2]
            /\ ~(x[1] = x[2] /\ x[3] = <<>>)
            /\ Len(c) - (x[2] - x[1]) + Len(x[3]) <= MaxDocLen } }

ApplyChange(c, ch) == Splice(c, ch.range.start.character, ch.range.end.character, ch.text)

RECURSIVE ApplyChanges(_, _)
ApplyChanges(c, chs) ==
    IF chs = <<>> THEN c ELSE ApplyChanges(ApplyChange(c, Head(chs)), Tail(chs))

\* the lists of at most k changes one notification bundles (a multi-cursor
\* edit): the host lists them from the end of the document to its start, none
\* overlapping another, so each range is valid both in the text before the
\* notification and in the text the changes listed before it left
RECURSIVE ChangeLists(_, _, _)
ChangeLists(c, k, limit) ==
    IF k = 0 THEN {<<>>}
    ELSE {<<>>} \cup
         UNION { { <<ch>> \o rest : rest \in ChangeLists(ApplyChange(c, ch), k - 1, ch.range.start.character) } :
                 ch \in { x \in ChangesOf(c) : x.range.end.character <= limit } }


(* ------------------------------ the state ------------------------------ *)

VARIABLES
    rev,               \* the revision of the extension that runs
    eventLog,          \* let eventLog: CodeEvent[]
    isRecording,       \* let isRecording
    docs,              \* the document store: the text of every document that can be opened
    activeTextEditor,  \* vscode.window.activeTextEditor's document, or None
    workspaceFolders,  \* whether vscode.workspace.workspaceFolders is defined
    pb,                \* the startPlaybackCommand coroutines
    notice,            \* the last message shown to the user
    used,              \* what the run has used of its bounds
    startContent,      \* the saved files' text when recording last started
    stopContent        \* the saved files' text when recording last stopped

vars == <<rev, eventLog, isRecording, docs, activeTextEditor, workspaceFolders,
          pb, notice, used, startContent, stopContent>>

Revisions == {"cloned", "inplace", "capture"}

\* the revisions whose listeners skip untitled documents
FiltersUntitled == rev = "cloned"

\* the text of the saved files, <<>> for one that is gone
Snapshot == [f \in SavedFiles |-> IF f \in DOMAIN docs THEN docs[f] ELSE <<>>]

(* ------------------------------ CodeEvent ------------------------------ *)

EditEvent(timestamp, file, change) ==
    [type |-> "edit", timestamp |-> timestamp, file |-> file,
     range |-> [start |-> change.range.start, end |-> change.range.end],
     text |-> change.text, rangeLength |-> change.rangeLength]

SwitchFileEvent(timestamp, file) ==
    [type |-> "switch_file", timestamp |-> timestamp, file |-> file]

(* ------------------------------ listeners ------------------------------ *)

\* new Date().toISOString(): the clock advances with everything the user does
Now == used.hostEvents

\* a text-change listener that records only the first content change of a
\* notification; C7 does not hold of it
onDidChangeTextDocumentFirstOnly(log, document, changes) ==
    IF /\ isRecording
       /\ Len(changes) > 0
       /\ (FiltersUntitled => ~isUntitled(document))
    THEN Append(log, EditEvent(Now, document, changes[1]))
    ELSE log

\* vscode.workspace.onDidChangeTextDocument(event => ...): the log after the
\* listener ran on a notification for document with contentChanges changes
onDidChangeTextDocument(log, document, changes) ==
    IF /\ isRecording
       /\ Len(changes) > 0
       /\ (FiltersUntitled => ~isUntitled(document))
    THEN log \o [i \in 1..Len(changes) |-> EditEvent(Now, document, changes[i])]
    ELSE log

\* a focus listener without the isRecording check; C3 does not hold of it
onDidChangeActiveTextEditorAlways(log, editor) ==
    IF /\ editor # None
       /\ (FiltersUntitled => ~isUntitled(editor))
    THEN Append(log, SwitchFileEvent(Now, editor))
    ELSE log

\* vscode.window.onDidChangeActiveTextEditor(editor => ...): editor is the
\* new active editor's document, None for undefined
onDidChangeActiveTextEditor(log, editor) ==
    IF /\ isRecording
       /\ editor # None
       /\ (FiltersUntitled => ~isUntitled(editor))
    THEN Append(log, SwitchFileEvent(Now, editor))
    ELSE log

(* --------------------------- recording commands ------------------------ *)

Replays == DOMAIN pb

\* the array a replay's for-of loop iterates: the array eventLog names, until
\* startRecordingCommand makes eventLog name a new one (arr then keeps the old
\* one) or the loop ends (arr then keeps what it walked)
LogOf(p, log) == IF p.live THEN log ELSE p.arr

\* eventLog = [] leaves a running loop on the array it iterates
Detach(p) == IF p.live THEN [p EXCEPT !.live = FALSE, !.arr = eventLog] ELSE p

\* a startRecording without eventLog = []; C5 does not hold of it
startRecordingKeepingLog ==
    /\ isRecording' = TRUE
    /\ notice' = [kind |-> "Recording started!", count |-> 0]
    /\ UNCHANGED <<rev, eventLog, docs, activeTextEditor, workspaceFolders, pb, used>>

startRecordingCommand ==
    /\ eventLog' = <<>>
    /\ isRecording' = TRUE
    /\ notice' = [kind |-> "Recording started!", count |-> 0]
    /\ pb' = [r \in Replays |-> Detach(pb[r])]
    /\ UNCHANGED <<rev, docs, activeTextEditor, workspaceFolders, used>>

\* a stopRecording that also empties the log; C6 does not hold of it
stopRecordingClearingLog ==
    /\ isRecording' = FALSE
    /\ eventLog' = <<>>
    /\ notice' = [kind |-> "Recording stopped.", count |-> Len(eventLog)]
    /\ pb' = [r \in Replays |-> Detach(pb[r])]
    /\ UNCHANGED <<rev, docs, activeTextEditor, workspaceFolders, used>>

stopRecordingCommand ==
    /\ isRecording' = FALSE
    /\ notice' = [kind |-> "Recording stopped.", count |-> Len(eventLog)]
    /\ UNCHANGED <<rev, eventLog, docs, activeTextEditor, workspaceFolders, pb, used>>

(* ------------------------------ the host ------------------------------- *)

\* the user changes an open document: the host applies the changes and
\* notifies the text-change listener
HostTextChange(document, changes) ==
    /\ document \in DOMAIN docs
    /\ used' = [used EXCEPT !.hostEvents = @ + 1]
    /\ LET log == onDidChangeTextDocument(eventLog, document, changes)
       IN  /\ Len(log) <= MaxLog
           /\ eventLog' = log
    /\ docs' = [docs EXCEPT ![document] = ApplyChanges(docs[document], changes)]
    /\ UNCHANGED <<rev, isRecording, activeTextEditor, workspaceFolders,
                   pb, notice>>

\* the user moves the focus to another document, or away from every editor
HostFocusChange(editor) ==
    /\ editor # activeTextEditor
    /\ editor = None \/ editor \in DOMAIN docs
    /\ used' = [used EXCEPT !.hostEvents = @ + 1]
    /\ activeTextEditor' = editor
    /\ LET log == onDidChangeActiveTextEditor(eventLog, editor)
       IN  /\ Len(log) <= MaxLog
           /\ eventLog' = log
    /\ UNCHANGED <<rev, isRecording, docs, workspaceFolders,
                   pb, notice>>

(* -------------------------------- replay ------------------------------- *)

\* await delay(3000), delay(50), delay(200)
CountdownDelay == 3000

EditDelay == 50

SwitchDelay == 200

NoNotice == [kind |-> "", count |-> 0]

\* asked observes the log as it was when the command was given; the code
\* keeps no such copy
IdleReplay ==
    [pc |-> "idle", live |-> FALSE, arr |-> <<>>, idx |-> 0,
     playbackFileMap |-> <<>>, openEditors |-> <<>>, editor |-> None,
     trace |-> <<>>, asked |-> <<>>]

\* a replay between the start of its countdown and its end
Running(p) == p.pc \in {"countdown", "opening", "editing", "delayEdit", "delaySwitch"}

\* path.join(workspaceRoot, `${fileInfo.name}(playback)${fileInfo.ext}`): the
\* clone's name keeps the file's base name and extension, not its directory
PlaybackPath(file) ==
    [scheme |-> "file", dir |-> WorkspaceRoot, name |-> Append(file.name, "(playback)"),
     ext |-> file.ext, n |-> file.n]

\* the event a suspended replay is working on
CurrentEvent(p, log) == LogOf(p, log)[p.idx]

\* the document the current event is replayed into, and the key of its editor
\* in openEditors
TargetOf(p, ev) == IF rev = "inplace" THEN ev.file ELSE p.playbackFileMap[ev.file]

\* an iteration that opens its target only if openEditors has no editor for
\* it; C22 does not hold of it
NeedsOpenUnregistered(p, target, active) == target \notin DOMAIN p.openEditors

\* an iteration that opens its target whatever is focused; C13 does not hold
\* of it
NeedsOpenAlways(p, target, active) == TRUE

\* vscode.window.activeTextEditor?.document.uri.toString() !== target, or no
\* editor registered for the target
NeedsOpen(p, target, active) == target \notin DOMAIN p.openEditors \/ active # target

\* an edit callback without the insert; C12 does not hold of it
BuilderOpsDeleteOnly(ev) ==
    IF ev.rangeLength > 0 THEN <<[op |-> "delete", range |-> ev.range]>> ELSE <<>>

\* an edit callback that inserts at the end of the range; C19 does not hold
\* of it
BuilderOpsInsertAtEnd(ev) ==
    (IF ev.rangeLength > 0 THEN <<[op |-> "delete", range |-> ev.range]>> ELSE <<>>)
    \o (IF ev.text # <<>> THEN <<[op |-> "insert", at |-> ev.range.end, text |-> ev.text]>> ELSE <<>>)

\* an edit callback without the delete; C1 does not hold of it
BuilderOpsInsertOnly(ev) ==
    IF ev.text # <<>> THEN <<[op |-> "insert", at |-> ev.range.start, text |-> ev.text]>> ELSE <<>>

\* what editBuilder is told for one event
BuilderOps(ev) ==
    (IF ev.rangeLength > 0 THEN <<[op |-> "delete", range |-> ev.range]>> ELSE <<>>)
    \o (IF ev.text # <<>> THEN <<[op |-> "insert", at |-> ev.range.start, text |-> ev.text]>> ELSE <<>>)

\* the text after the host applied one editor.edit: a delete of [start, end)
\* and an insert at start, both in the coordinates of the text before
ApplyOps(c, ops) ==
    LET dels == { k \in 1..Len(ops) : ops[k].op = "delete" }
        inss == { k \in 1..Len(ops) : ops[k].op = "insert" }
        d    == IF dels = {} THEN <<>> ELSE ops[CHOOSE k \in dels : TRUE]
        i    == IF inss = {} THEN <<>> ELSE ops[CHOOSE k \in inss : TRUE]
        c1   == IF dels = {} THEN c
                ELSE Splice(c, d.range.start.character, d.range.end.character, <<>>)
    IN  IF inss = {} THEN c1
        ELSE Splice(c1, i.at.character, i.at.character, i.text)

\* the content changes the host reports for one applied editor.edit, last in
\* the document first; an operation that changes nothing is not reported
ChangesFor(c, ops) ==
    LET all == [k \in 1..Len(ops) |->
                  IF ops[k].op = "delete"
                  THEN Change(Min(ops[k].range.start.character, Len(c)),
                              Min(ops[k].range.end.character, Len(c)), <<>>)
                  ELSE Change(Min(ops[k].at.character, Len(c)), Min(ops[k].at.character, Len(c)),
                              ops[k].text)]
        Changes(ch) == ch.rangeLength > 0 \/ ch.text # <<>>
    IN  SelectSeq(all, Changes)

Entry(op, p, doc) == [op |-> op, i |-> p.idx, doc |-> doc]

\* an iteration whose pause after a file switch grows with the event's
\* timestamp; C18 does not hold of it
DispatchByTimestamp(p, ev) ==
    IF ev.type = "edit" /\ "range" \in DOMAIN ev
    THEN [p EXCEPT !.pc = "editing"]
    ELSE [p EXCEPT !.pc = "delaySwitch",
                   !.trace = Append(@, [op |-> "delay", i |-> p.idx, doc |-> None,
                                        ms |-> SwitchDelay * (1 + ev.timestamp)])]

\* an iteration that pauses and applies no edit; C2 does not hold of it
DispatchPauseOnly(p, ev) ==
    [p EXCEPT !.pc = "delaySwitch",
              !.trace = Append(@, [op |-> "delay", i |-> p.idx, doc |-> None, ms |-> SwitchDelay])]

\* step (c)/(d) of one iteration up to its await: an edit is handed to the
\* editor, a file switch starts its pause
Dispatch(p, ev) ==
    IF ev.type = "edit" /\ "range" \in DOMAIN ev
    THEN [p EXCEPT !.pc = "editing"]
    ELSE [p EXCEPT !.pc = "delaySwitch",
                   !.trace = Append(@, [op |-> "delay", i |-> p.idx, doc |-> None, ms |-> SwitchDelay])]

\* the for-of loop from the top of an iteration to its first await, for the
\* replay p with the log, the documents and the active editor as they are:
\* the replay after it, the documents after it, and the message shown if any.
\* io says whether fs.writeFileSync succeeds when it is called.
LoopHead(p, log, ds, active, io) ==
    LET arr == LogOf(p, log)
    IN  IF p.idx >= Len(arr)
        THEN [p |-> [p EXCEPT !.pc = "finished", !.live = FALSE, !.arr = arr], docs |-> ds,
              notice |-> [kind |-> "Playback finished!", count |-> 0]]
        ELSE
          LET ev     == arr[p.idx + 1]
              p1     == [p EXCEPT !.idx = @ + 1, !.editor = None]
              create == rev # "inplace" /\ ev.file \notin DOMAIN p.playbackFileMap
              path   == PlaybackPath(ev.file)
          IN  IF create /\ ~io
              THEN [p |-> [p1 EXCEPT !.pc = "failed",
                                     !.trace = Append(@, Entry("createFailed", p1, path))],
                    docs |-> ds, notice |-> NoNotice]
              ELSE
                LET p2 == IF create
                          THEN [p1 EXCEPT !.playbackFileMap = (ev.file :> path) @@ @,
                                          !.trace = Append(@, Entry("create", p1, path))]
                          ELSE p1
                    ds2 == IF create /\ path \notin DOMAIN ds THEN (path :> <<>>) @@ ds ELSE ds
                    target == TargetOf(p2, ev)
                IN  IF NeedsOpen(p2, target, active)
                    THEN [p |-> [p2 EXCEPT !.pc = "opening"], docs |-> ds2, notice |-> NoNotice]
                    ELSE [p |-> Dispatch([p2 EXCEPT !.editor = p2.openEditors[target]], ev),
                          docs |-> ds2, notice |-> NoNotice]

\* the notice after a step that may have shown a message
Shown(n) == IF n = NoNotice THEN notice ELSE n

\* a startPlayback without the empty-log guard; C9 does not hold of it
startPlaybackUnguarded(r) ==
    /\ rev # "capture"
    /\ ~Running(pb[r])
    /\ used.playbacks < MaxPlaybacks * Cardinality(Replays)
    /\ used' = [used EXCEPT !.playbacks = @ + 1]
    /\ IF rev # "inplace" /\ ~workspaceFolders
       THEN /\ pb' = [pb EXCEPT ![r] = [IdleReplay EXCEPT !.pc = "aborted"]]
            /\ notice' = [kind |-> "You must be in a workspace (folder) to run playback.", count |-> 0]
       ELSE /\ pb' = [pb EXCEPT ![r] = [IdleReplay EXCEPT !.pc = "countdown", !.asked = eventLog,
                         !.trace = <<[op |-> "delay", i |-> 0, doc |-> None, ms |-> CountdownDelay]>>]]
            /\ notice' = [kind |-> "Playback starting in 3 seconds...", count |-> 0]
    /\ UNCHANGED <<rev, eventLog, isRecording, docs, activeTextEditor, workspaceFolders>>

\* a startPlayback without the workspace check; C10 does not hold of it
startPlaybackAnywhere(r) ==
    /\ rev # "capture"
    /\ ~Running(pb[r])
    /\ used.playbacks < MaxPlaybacks * Cardinality(Replays)
    /\ used' = [used EXCEPT !.playbacks = @ + 1]
    /\ IF Len(eventLog) = 0
       THEN /\ pb' = [pb EXCEPT ![r] = [IdleReplay EXCEPT !.pc = "nothing"]]
            /\ notice' = [kind |-> "No recording to play back.", count |-> 0]
       ELSE /\ pb' = [pb EXCEPT ![r] = [IdleReplay EXCEPT !.pc = "countdown", !.asked = eventLog,
                         !.trace = <<[op |-> "delay", i |-> 0, doc |-> None, ms |-> CountdownDelay]>>]]
            /\ notice' = [kind |-> "Playback starting in 3 seconds...", count |-> 0]
    /\ UNCHANGED <<rev, eventLog, isRecording, docs, activeTextEditor, workspaceFolders>>

\* codereplay.startPlayback up to its first await
startPlaybackCommand(r) ==
    /\ rev # "capture"
    /\ ~Running(pb[r])
    /\ used.playbacks < MaxPlaybacks * Cardinality(Replays)
    /\ used' = [used EXCEPT !.playbacks = @ + 1]
    /\ IF Len(eventLog) = 0
       THEN /\ pb' = [pb EXCEPT ![r] = [IdleReplay EXCEPT !.pc = "nothing"]]
            /\ notice' = [kind |-> "No recording to play back.", count |-> 0]
       ELSE IF rev # "inplace" /\ ~workspaceFolders
       THEN /\ pb' = [pb EXCEPT ![r] = [IdleReplay EXCEPT !.pc = "aborted"]]
            /\ notice' = [kind |-> "You must be in a workspace (folder) to run playback.", count |-> 0]
       ELSE /\ pb' = [pb EXCEPT ![r] = [IdleReplay EXCEPT !.pc = "countdown", !.asked = eventLog,
                         !.trace = <<[op |-> "delay", i |-> 0, doc |-> None, ms |-> CountdownDelay]>>]]
            /\ notice' = [kind |-> "Playback starting in 3 seconds...", count |-> 0]
    /\ UNCHANGED <<rev, eventLog, isRecording, docs, activeTextEditor, workspaceFolders>>

\* the countdown is over: the maps are created and the loop starts
CountdownDone(r, io) ==
    /\ pb[r].pc = "countdown"
    /\ LET p == [pb[r] EXCEPT !.live = TRUE, !.idx = 0,
                              !.playbackFileMap = <<>>, !.openEditors = <<>>]
           n == LoopHead(p, eventLog, docs, activeTextEditor, io)
       IN  /\ pb' = [pb EXCEPT ![r] = n.p]
           /\ docs' = n.docs
           /\ notice' = Shown(n.notice)
    /\ UNCHANGED <<rev, eventLog, isRecording, activeTextEditor, workspaceFolders,
                   used>>

\* openTextDocument and showTextDocument are over.  A document that is there
\* is opened and focused; one that is not makes the in-place revision open an
\* untitled substitute and the cloned revision throw.
OpenDone(r) ==
    /\ pb[r].pc = "opening"
    /\ LET p      == pb[r]
           ev     == CurrentEvent(p, eventLog)
           target == TargetOf(p, ev)
           found  == target \in DOMAIN docs
           sub    == Untitled(used.untitled + 1)
           shown  == IF found THEN target ELSE sub
           log    == IF shown # activeTextEditor
                     THEN onDidChangeActiveTextEditor(eventLog, shown)
                     ELSE eventLog
       IN  IF ~found /\ rev # "inplace"
           THEN /\ pb' = [pb EXCEPT ![r] = [p EXCEPT !.pc = "failed",
                                  !.trace = Append(@, Entry("openFailed", p, target))]]
                /\ UNCHANGED <<eventLog, docs, activeTextEditor, used, notice>>
           ELSE /\ Len(log) <= MaxLog
                /\ eventLog' = log
                /\ activeTextEditor' = shown
                /\ docs' = IF found THEN docs ELSE (sub :> <<>>) @@ docs
                /\ used' = IF found THEN used ELSE [used EXCEPT !.untitled = @ + 1]
                /\ notice' = IF found THEN notice
                             ELSE [kind |-> "console.error: Could not open file", count |-> 0]
                /\ pb' = [pb EXCEPT ![r] =
                            Dispatch([p EXCEPT !.editor = shown,
                                               !.openEditors = (target :> shown) @@ @,
                                               !.trace = (IF found THEN @
                                                          ELSE Append(@, Entry("openFailed", p, target)))
                                                         \o <<Entry("focus", p, shown)>>],
                                     ev)]
    /\ UNCHANGED <<rev, isRecording, workspaceFolders>>

\* editor.edit is over: with ok the host applied the edit and notified the
\* text-change listener, without it the host refused the edit (the promise
\* resolves to false, which the command does not read)
EditDone(r, ok) ==
    /\ pb[r].pc = "editing"
    /\ LET p    == pb[r]
           ev   == CurrentEvent(p, eventLog)
           ops  == BuilderOps(ev)
           done == ok /\ p.editor \in DOMAIN docs
           c    == IF done THEN docs[p.editor] ELSE <<>>
           log  == IF done
                   THEN onDidChangeTextDocument(eventLog, p.editor, ChangesFor(c, ops))
                   ELSE eventLog
       IN  /\ Len(log) <= MaxLog
           /\ eventLog' = log
           /\ docs' = IF done THEN [docs EXCEPT ![p.editor] = ApplyOps(c, ops)] ELSE docs
           /\ pb' = [pb EXCEPT ![r] = [p EXCEPT !.pc = "delayEdit",
                        !.trace = @ \o <<[op |-> "edit", i |-> p.idx, doc |-> p.editor,
                                          ops |-> ops, applied |-> done],
                                         [op |-> "delay", i |-> p.idx, doc |-> None, ms |-> EditDelay]>>]]
    /\ UNCHANGED <<rev, isRecording, activeTextEditor, workspaceFolders, notice, used>>

\* a pacing delay is over: the next iteration starts
DelayDone(r, io) ==
    /\ pb[r].pc \in {"delayEdit", "delaySwitch"}
    /\ LET n == LoopHead(pb[r], eventLog, docs, activeTextEditor, io)
       IN  /\ pb' = [pb EXCEPT ![r] = n.p]
           /\ docs' = n.docs
           /\ notice' = Shown(n.notice)
    /\ UNCHANGED <<rev, eventLog, isRecording, activeTextEditor, workspaceFolders,
                   used>>

\* a saved file that no editor shows is deleted from disk
DeleteFile(f) ==
    /\ f \in DOMAIN docs
    /\ f.scheme = "file"
    /\ f # activeTextEditor
    /\ \A r \in Replays : \A k \in DOMAIN pb[r].openEditors : pb[r].openEditors[k] # f
    /\ used' = [used EXCEPT !.hostEvents = @ + 1]
    /\ docs' = [d \in DOMAIN docs \ {f} |-> docs[d]]
    /\ UNCHANGED <<rev, eventLog, isRecording, activeTextEditor, workspaceFolders,
                   pb, notice>>

Init ==
    /\ rev \in Revisions
    /\ eventLog = <<>>
    /\ isRecording = FALSE
    /\ docs = [f \in UserDocs |-> IF f = FileA THEN <<"x">> ELSE <<>>]
    /\ activeTextEditor = None
    /\ workspaceFolders \in (IF rev = "cloned" THEN BOOLEAN ELSE {TRUE})
    /\ pb = [r \in {1} |-> IdleReplay]
    /\ notice = NoNotice
    /\ used = [hostEvents |-> 0, playbacks |-> 0, untitled |-> 0]
    /\ startContent = Snapshot
    /\ stopContent = Snapshot

\* the session snapshots are taken only under SpecSession
Quiet == UNCHANGED <<startContent, stopContent>>

\* the user may still do something to the documents
UserBudget == used.hostEvents < MaxHostEvents

UserTextChange ==
    \E document \in UserDocs :
      \E changes \in ChangeLists(IF document \in DOMAIN docs THEN docs[document] ELSE <<>>,
                                 MaxChanges, MaxDocLen) :
        HostTextChange(document, changes)

UserFocusChange == \E editor \in UserDocs \cup {None} : HostFocusChange(editor)

UserDeleteFile == \E f \in SavedFiles \cup {PlaybackPath(g) : g \in UserDocs} : DeleteFile(f)

Next ==
    \/ startRecordingCommand /\ Quiet
    \/ stopRecordingCommand /\ Quiet
    \/ UserBudget /\ UserTextChange /\ Quiet
    \/ UserBudget /\ UserFocusChange /\ Quiet
    \/ UserBudget /\ UserDeleteFile /\ Quiet
    \/ \E r \in Replays : startPlaybackCommand(r) /\ Quiet
    \/ \E r \in Replays : \E io \in BOOLEAN : CountdownDone(r, io) /\ Quiet
    \/ \E r \in Replays : OpenDone(r) /\ Quiet
    \/ \E r \in Replays : \E ok \in BOOLEAN : EditDone(r, ok) /\ Quiet
    \/ \E r \in Replays : \E io \in BOOLEAN : DelayDone(r, io) /\ Quiet

Spec == Init /\ [][Next]_vars

(* ------------------------------- capture ------------------------------- *)

IsPrefix(a, b) == Len(a) <= Len(b) /\ SubSeq(b, 1, Len(a)) = a

\* the events a step appended to the log
Added == SubSeq(eventLog', Len(eventLog) + 1, Len(eventLog'))

\* the content change an EditEvent recorded
ChangeOf(ev) == [range |-> ev.range, text |-> ev.text, rangeLength |-> ev.rangeLength]

\* C3: a step that starts and ends with isRecording false leaves the log as
\* it is, whatever notification the step delivers (a user's text change or
\* focus change, or one a replay's own edit or focus caused).
C3_NoCaptureWhileNotRecording ==
    [][(~isRecording /\ ~isRecording') => eventLog' = eventLog]_vars

\* a text change was delivered before any command was given, and the log is
\* still empty
C3_Witness ==
    /\ notice = NoNotice
    /\ ~isRecording
    /\ used.hostEvents >= 1
    /\ FileA \in DOMAIN docs /\ docs[FileA] # <<"x">>
    /\ eventLog = <<>>

\* C4: no event of the log carries the identifier of an untitled document.
C4_NoTransientInLog ==
    \A i \in 1..Len(eventLog) : ~isUntitled(eventLog[i].file)

\* C5: startRecordingCommand can be given in every state, and the step it
\* takes ends with an empty log and isRecording true.
C5_StartResets ==
    /\ [](ENABLED startRecordingCommand)
    /\ [][startRecordingCommand => (eventLog' = <<>> /\ isRecording')]_vars

\* recording was started again while a replay was walking a non-empty log:
\* the replay is left on the old array and the log is empty
C5_Witness ==
    /\ isRecording
    /\ eventLog = <<>>
    /\ notice.kind = "Recording started!"
    /\ \E r \in Replays : pb[r].pc = "delayEdit" /\ ~pb[r].live /\ Len(pb[r].arr) >= 2

\* C6: the step stopRecordingCommand takes ends with isRecording false, the
\* log as it was and the log's length reported; and from then on a step
\* changes the log only by emptying it and setting isRecording, as
\* startRecordingCommand does.
C6_StopKeepsLog ==
    [][/\ stopRecordingCommand =>
            (~isRecording' /\ eventLog' = eventLog /\ notice'.count = Len(eventLog))
       /\ (~isRecording /\ eventLog' # eventLog) => (eventLog' = <<>> /\ isRecording')]_vars

\* recording stopped with one event, on FileB; FileA was changed after that
\* event and is not in the log, and the count shown is still the log's length
C6_Witness ==
    /\ ~isRecording
    /\ notice = [kind |-> "Recording stopped.", count |-> 1]
    /\ Len(eventLog) = 1 /\ eventLog[1].file = FileB /\ eventLog[1].timestamp = 0
    /\ used.hostEvents = 2
    /\ FileA \in DOMAIN docs /\ docs[FileA] # <<"x">>

\* C7: a step changes the log only by emptying it (startRecordingCommand) or,
\* while recording, by appending to it.  While recording, a step that changes
\* the text of a saved file appends EditEvents of that file only, stamped
\* with the time of the step, whose changes applied in log order to the text
\* before give the text after; and a step that moves the focus to a saved
\* file appends exactly one SwitchFileEvent of that file.
C7_AppendOnly ==
    [][/\ eventLog' # eventLog =>
            \/ eventLog' = <<>> /\ isRecording'
            \/ isRecording /\ IsPrefix(eventLog, eventLog')
       /\ \A f \in SavedFiles :
            ( /\ isRecording
              /\ f \in DOMAIN docs /\ f \in DOMAIN docs'
              /\ docs'[f] # docs[f] )
            => /\ Added # <<>>
               /\ \A k \in 1..Len(Added) :
                     /\ Added[k].type = "edit"
                     /\ Added[k].file = f
                     /\ Added[k].timestamp = Now
               /\ docs'[f] = ApplyChanges(docs[f], [k \in 1..Len(Added) |-> ChangeOf(Added[k])])
       /\ ( /\ isRecording
            /\ activeTextEditor' # activeTextEditor
            /\ activeTextEditor' \in SavedFiles )
            => Added = <<SwitchFileEvent(Now, activeTextEditor')>>]_vars

\* one notification with two content changes was recorded as two EditEvents
\* in the host's order, the later position first
C7_Witness ==
    /\ isRecording
    /\ used.hostEvents = 1
    /\ Len(eventLog) = 2
    /\ eventLog[1].type = "edit" /\ eventLog[2].type = "edit"
    /\ eventLog[1].range.start.character > eventLog[2].range.start.character
    /\ eventLog[1].text = <<"y">> /\ eventLog[2].rangeLength = 1

(* -------------------------------- replay ------------------------------- *)

\* C9: startPlaybackCommand on an empty log ends at once: no countdown, no
\* effect on documents, focus, log or recording flag, and the replay stays
\* ended.
C9_EmptyLogNoEffect ==
    [][\A r \in Replays :
         /\ (startPlaybackCommand(r) /\ eventLog = <<>>) =>
               /\ pb'[r].pc = "nothing"
               /\ pb'[r].trace = <<>>
               /\ notice'.kind = "No recording to play back."
               /\ docs' = docs /\ activeTextEditor' = activeTextEditor
               /\ eventLog' = eventLog /\ isRecording' = isRecording
         /\ (pb[r].pc = "nothing" /\ pb'[r] # pb[r]) => startPlaybackCommand(r)]_vars

\* a replay of an empty log ended while recording was on and the user's
\* changes were on their way
C9_Witness ==
    /\ \E r \in Replays : pb[r].pc = "nothing"
    /\ isRecording
    /\ Len(eventLog) >= 1

\* C10: in the cloned revision startPlaybackCommand with a non-empty log and
\* no workspace folder ends aborted with the error shown: no countdown, no
\* clone file, no document opened, no edit, and the replay stays ended.
C10_NoOutputRootAborts ==
    [][\A r \in Replays :
         /\ (startPlaybackCommand(r) /\ rev = "cloned" /\ eventLog # <<>> /\ ~workspaceFolders) =>
               /\ pb'[r].pc = "aborted"
               /\ pb'[r].trace = <<>>
               /\ notice'.kind = "You must be in a workspace (folder) to run playback."
               /\ docs' = docs /\ activeTextEditor' = activeTextEditor
               /\ eventLog' = eventLog /\ isRecording' = isRecording
         /\ (pb[r].pc = "aborted" /\ pb'[r] # pb[r]) => startPlaybackCommand(r)]_vars

\* a replay was aborted in the cloned revision without a workspace folder,
\* with two events in the log and no document beyond the user's
C10_Witness ==
    \E r \in Replays :
      /\ pb[r].pc = "aborted"
      /\ rev = "cloned" /\ ~workspaceFolders
      /\ Len(eventLog) >= 2
      /\ DOMAIN docs = UserDocs

\* the places of the trace t that hold an entry op of the i-th event
Places(t, op, i) == { k \in 1..Len(t) : t[k].op = op /\ t[k].i = i }

\* the i-th iteration of replay p is over
IterationOver(p, i) == i < p.idx \/ (i = p.idx /\ p.pc \in {"delayEdit", "delaySwitch", "finished"})

\* the documents the replay of event ev may act on: its target, or in the
\* in-place revision an untitled substitute
TargetsOf(ev) ==
    IF rev = "inplace" THEN {ev.file} \cup {Untitled(k) : k \in 1..used.untitled}
    ELSE {PlaybackPath(ev.file)}

\* C2: a replay applies the events of the array it walks in the array's
\* order.  Its effects are in order of event number; an iteration that is over
\* has applied exactly one edit, the one of its event, and one inter-edit
\* delay if its event is an EditEvent, and no edit and one inter-file-switch
\* delay if it is a SwitchFileEvent; an iteration that is not over has
\* applied no edit and no delay; every focus and edit is on the target of
\* its event; and a replay that finished has gone through the whole array.
C2_ReplayInLogOrder ==
    \A r \in Replays :
      LET p   == pb[r]
          t   == p.trace
          arr == LogOf(p, eventLog)
      IN  /\ p.idx <= Len(arr)
          /\ p.pc = "finished" => p.idx = Len(arr)
          /\ \A k \in 1..Len(t) : t[k].i <= p.idx
          /\ \A k \in 1..(Len(t) - 1) : t[k].i <= t[k + 1].i
          /\ \A i \in 1..p.idx :
               LET ev == arr[i]
               IN  /\ \A k \in Places(t, "focus", i) \cup Places(t, "edit", i) : t[k].doc \in TargetsOf(ev)
                   /\ IF ~IterationOver(p, i)
                      THEN Places(t, "edit", i) = {} /\ Places(t, "delay", i) = {}
                      ELSE IF ev.type = "edit"
                      THEN /\ Cardinality(Places(t, "edit", i)) = 1
                           /\ \A k \in Places(t, "edit", i) : t[k].ops = BuilderOps(ev)
                           /\ Cardinality(Places(t, "delay", i)) = 1
                           /\ \A k \in Places(t, "delay", i) :
                                t[k].ms = EditDelay /\ \A j \in Places(t, "edit", i) : j < k
                      ELSE /\ Places(t, "edit", i) = {}
                           /\ Cardinality(Places(t, "delay", i)) = 1
                           /\ \A k \in Places(t, "delay", i) : t[k].ms = SwitchDelay

\* a replay finished a log of an edit, a file switch and another edit
C2_Witness ==
    \E r \in Replays :
      /\ pb[r].pc = "finished"
      /\ Len(pb[r].arr) = 3
      /\ pb[r].arr[1].type = "edit" /\ pb[r].arr[1].text = <<"y">>
      /\ pb[r].arr[2].type = "switch_file" /\ pb[r].arr[2].file # pb[r].arr[1].file
      /\ pb[r].arr[3].type = "edit" /\ pb[r].arr[3].rangeLength > 0
      /\ \A k \in 1..Len(pb[r].trace) : pb[r].trace[k].op = "edit" => pb[r].trace[k].applied

\* C8: in the cloned revision a replay that went through events of N
\* distinct files has created N distinct clone files, each named after its
\* file with (playback) before the extension, and none of them twice.
C8_OneClonePerFile ==
    \A r \in Replays :
      LET p       == pb[r]
          t       == p.trace
          creates == { k \in 1..Len(t) : t[k].op = "create" }
          arr     == LogOf(p, eventLog)
          files   == { arr[i].file : i \in 1..p.idx }
      IN  (rev = "cloned" /\ p.pc # "failed") =>
            /\ Cardinality({ t[k].doc : k \in creates }) = Cardinality(files)
            /\ \A k \in creates : t[k].doc = PlaybackPath(arr[t[k].i].file)
            /\ \A j, k \in creates : t[j].doc = t[k].doc => j = k

(* ------------------------- one recorded session ------------------------ *)

\* no command was given yet, or only startRecording
BeforeStop == notice.kind \in {"", "Recording started!"}

Stopped == notice.kind = "Recording stopped."

\* the user puts the saved files back to what they held when recording
\* started
RestoreFiles ==
    /\ Stopped
    /\ Snapshot # startContent
    /\ docs' = [d \in DOMAIN docs |-> IF d \in SavedFiles THEN startContent[d] ELSE docs[d]]
    /\ UNCHANGED <<rev, eventLog, isRecording, activeTextEditor, workspaceFolders,
                   pb, notice, used>>

SessionBudget == used.hostEvents < MaxSessionEvents

InitSession == Init /\ rev = "inplace"

\* one recording session and then one replay of its log into the files as
\* they were when recording started, with nothing else going on: the user
\* changes documents and focus before and while recording, stops, restores
\* the files, and starts the replay, in which every host operation succeeds
NextSession ==
    \/ /\ notice = NoNotice
       /\ startRecordingCommand
       /\ startContent' = Snapshot
       /\ UNCHANGED stopContent
    \/ /\ isRecording
       /\ stopRecordingCommand
       /\ stopContent' = Snapshot
       /\ UNCHANGED startContent
    \/ BeforeStop /\ SessionBudget /\ UserTextChange /\ Quiet
    \/ BeforeStop /\ SessionBudget /\ UserFocusChange /\ Quiet
    \/ RestoreFiles /\ Quiet
    \/ /\ Stopped
       /\ Snapshot = startContent
       /\ \E r \in Replays : startPlaybackCommand(r)
       /\ Quiet
    \/ \E r \in Replays : CountdownDone(r, TRUE) /\ Quiet
    \/ \E r \in Replays : OpenDone(r) /\ Quiet
    \/ \E r \in Replays : EditDone(r, TRUE) /\ Quiet
    \/ \E r \in Replays : DelayDone(r, TRUE) /\ Quiet

SpecSession == InitSession /\ [][NextSession]_vars

\* C1: when the in-place replay of a session's log, started on the saved
\* files as they were when recording started, has finished, every saved
\* file holds the text it held when recording stopped.
C1_RoundTrip ==
    \A r \in Replays : pb[r].pc = "finished" => Snapshot = stopContent

\* a replay finished that had three events to apply, to files that the
\* session had changed and the user had restored
C1_Witness ==
    \E r \in Replays :
      /\ pb[r].pc = "finished"
      /\ Len(pb[r].arr) = 3
      /\ \A i \in 1..3 : pb[r].arr[i].type = "edit" /\ pb[r].arr[i].file \in SavedFiles
      /\ startContent # stopContent
      /\ startContent[FileA] # <<"x">>

(* ---------------------------- failing opens ---------------------------- *)

\* C11: a failed open of an event's target does not end the replay: the
\* replay goes on with an untitled substitute focused for that event, in the
\* cloned revision as in the in-place one.
C11_OpenFailureTolerated ==
    \A r \in Replays :
      LET t == pb[r].trace
      IN  \A k \in 1..Len(t) :
            t[k].op = "openFailed" =>
              /\ pb[r].pc # "failed"
              /\ k < Len(t)
              /\ t[k + 1].op = "focus" /\ t[k + 1].i = t[k].i /\ isUntitled(t[k + 1].doc)

(* ------------------------------ one edit ------------------------------- *)

\* the step of replay r is an editor.edit that the host applied
EditApplied(r) ==
    /\ pb[r].pc = "editing"
    /\ pb'[r].pc = "delayEdit"
    /\ pb[r].editor \in DOMAIN docs
    /\ pb'[r].trace[Len(pb'[r].trace) - 1].applied

\* the step changes no document but d
OnlyChanges(d) ==
    /\ DOMAIN docs' = DOMAIN docs
    /\ \A x \in DOMAIN docs \ {d} : docs'[x] = docs[x]

\* C12: an applied edit of an event with rangeLength 0 and a text puts the
\* text at range.start and keeps every character of the document; one of an
\* event with rangeLength > 0 and no text removes the characters of
\* [range.start, range.end) and adds none.  (Ranges inside the document.)
C12_PureInsertPureDelete ==
    [][\A r \in Replays :
         EditApplied(r) =>
           LET ev == CurrentEvent(pb[r], eventLog)
               d  == pb[r].editor
               c  == docs[d]
               s  == ev.range.start.character
               e  == ev.range.end.character
           IN  /\ (ev.rangeLength = 0 /\ ev.text # <<>> /\ s <= Len(c)) =>
                     /\ docs'[d] = SubSeq(c, 1, s) \o ev.text \o SubSeq(c, s + 1, Len(c))
                     /\ OnlyChanges(d)
               /\ (ev.rangeLength > 0 /\ ev.text = <<>> /\ e <= Len(c)) =>
                     /\ docs'[d] = SubSeq(c, 1, s) \o SubSeq(c, e + 1, Len(c))
                     /\ OnlyChanges(d)]_vars

\* an in-place replay applied a deletion of FileA's first character and then
\* an insertion at its start
C12_Witness ==
    \E r \in Replays :
      /\ rev = "inplace"
      /\ pb[r].pc = "finished"
      /\ Len(pb[r].arr) = 2
      /\ \A i \in 1..2 : pb[r].arr[i].type = "edit" /\ pb[r].arr[i].file = FileA
      /\ pb[r].arr[1].rangeLength = 1 /\ pb[r].arr[1].text = <<>>
      /\ pb[r].arr[2].rangeLength = 0 /\ pb[r].arr[2].text = <<"y">>
      /\ \A k \in 1..Len(pb[r].trace) : pb[r].trace[k].op = "edit" => pb[r].trace[k].applied
      /\ FileA \in DOMAIN docs /\ docs[FileA] = <<"y">>

\* C19: an applied edit of an event with rangeLength > 0 and a text replaces
\* the characters of [range.start, range.end) by the text: what was before
\* range.start and after range.end is kept, and the text begins at
\* range.start.  (Ranges inside the document.)
C19_Replace ==
    [][\A r \in Replays :
         EditApplied(r) =>
           LET ev == CurrentEvent(pb[r], eventLog)
               d  == pb[r].editor
               c  == docs[d]
               s  == ev.range.start.character
               e  == ev.range.end.character
           IN  (ev.rangeLength > 0 /\ ev.text # <<>> /\ e <= Len(c)) =>
                 /\ docs'[d] = SubSeq(c, 1, s) \o ev.text \o SubSeq(c, e + 1, Len(c))
                 /\ SubSeq(docs'[d], s + 1, s + Len(ev.text)) = ev.text
                 /\ OnlyChanges(d)]_vars

\* a replay applied a replacement of the first of two characters: the text
\* stands where the character stood and the second character is kept
C19_Witness ==
    \E r \in Replays :
      /\ pb[r].pc \in {"delayEdit", "finished"}
      /\ pb[r].idx >= 1
      /\ LET ev == LogOf(pb[r], eventLog)[pb[r].idx]
             t  == pb[r].trace
         IN  /\ ev.type = "edit" /\ ev.rangeLength = 1 /\ ev.text = <<"y">>
             /\ ev.range.start.character = 0
             /\ \E k \in 1..Len(t) :
                  /\ t[k].op = "edit" /\ t[k].i = pb[r].idx /\ t[k].applied
                  /\ t[k].doc \in DOMAIN docs /\ docs[t[k].doc] = <<"y", "x">>

(* --------------------- replay without the user around ------------------- *)

InitReplay == Init /\ rev \in {"cloned", "inplace"}

\* a recorded session and its replay as in NextSession, in both playing
\* revisions, where files may be deleted once recording has stopped: nothing
\* but the replay moves the focus while it runs
NextReplay ==
    \/ NextSession
    \/ Stopped /\ UserDeleteFile /\ Quiet

SpecReplay == InitReplay /\ [][NextReplay]_vars

\* the target of the i-th event of replay p
TargetAt(p, i) == TargetOf(p, LogOf(p, eventLog)[i])

\* the focus entries of a trace
Focuses(t) ==
    LET IsFocus(x) == x.op = "focus"
    IN  SelectSeq(t, IsFocus)

\* the original second clause of C13: of two consecutive events with the
\* same target the second causes no open
C13_NoReopenOfSameTarget ==
    \A r \in Replays :
      LET p == pb[r]
      IN  \A i \in 1..(p.idx - 1) :
            TargetAt(p, i) = TargetAt(p, i + 1) =>
              /\ ~(p.idx = i + 1 /\ p.pc = "opening")
              /\ Places(p.trace, "focus", i + 1) = {}

\* C13: with nothing but the replay moving the focus, an iteration opens its
\* target only if openEditors has no editor for it or the active editor shows
\* another document; of two consecutive events with the same target, whose
\* open did not fail for the first, the second causes no open; and an
\* in-place replay of [Edit(A), Switch(B), Edit(B)] whose opens succeed
\* focuses A once and then B once.
C13_CheckBeforeOpen ==
    /\ [][\A r \in Replays :
            (pb[r].pc # "opening" /\ pb'[r].pc = "opening") =>
               LET target == TargetOf(pb'[r], LogOf(pb'[r], eventLog')[pb'[r].idx])
               IN  \/ target \notin DOMAIN pb[r].openEditors
                   \/ pb[r].pc = "countdown"
                   \/ activeTextEditor # target]_vars
    /\ [](\A r \in Replays :
            LET p == pb[r]
            IN  /\ \A i \in 1..(p.idx - 1) :
                     ( /\ TargetAt(p, i) = TargetAt(p, i + 1)
                       /\ Places(p.trace, "openFailed", i) = {} ) =>
                       /\ ~(p.idx = i + 1 /\ p.pc = "opening")
                       /\ Places(p.trace, "focus", i + 1) = {}
                       /\ Places(p.trace, "openFailed", i + 1) = {}
                /\ ( /\ rev = "inplace"
                     /\ p.pc = "finished"
                     /\ Len(p.arr) = 3
                     /\ p.arr[1].type = "edit" /\ p.arr[1].file = FileA
                     /\ p.arr[2].type = "switch_file" /\ p.arr[2].file = FileB
                     /\ p.arr[3].type = "edit" /\ p.arr[3].file = FileB
                     /\ \A k \in 1..Len(p.trace) : p.trace[k].op # "openFailed" ) =>
                     Focuses(p.trace) = <<[op |-> "focus", i |-> 1, doc |-> FileA],
                                          [op |-> "focus", i |-> 2, doc |-> FileB]>>)

\* an in-place replay of [Edit(A), Switch(B), Edit(B)] finished with both
\* files there
C13_Witness ==
    \E r \in Replays :
      LET p == pb[r]
      IN  /\ rev = "inplace"
          /\ p.pc = "finished"
          /\ Len(p.arr) = 3
          /\ p.arr[1].type = "edit" /\ p.arr[1].file = FileA
          /\ p.arr[2].type = "switch_file" /\ p.arr[2].file = FileB
          /\ p.arr[3].type = "edit" /\ p.arr[3].file = FileB
          /\ Len(Focuses(p.trace)) = 2
          /\ \A k \in 1..Len(p.trace) : p.trace[k].op # "openFailed"

(* ------------------------- capture during replay ------------------------ *)

\* C14: while a replay is between the start of its countdown and its end, no
\* step appends an event to the log.
C14_NoCaptureDuringReplay ==
    [][(\E r \in Replays : Running(pb[r])) => Len(eventLog') <= Len(eventLog)]_vars

\* the events replay p has still to visit
Remaining(p, log) == Len(LogOf(p, log)) - p.idx

\* C15: a replay's loop ends because every step of it leaves it with no more
\* events to visit than it had: no step of a replay in its loop adds to the
\* array it walks.
C15_ReplayAddsNoWork ==
    [][\A r \in Replays :
         (Running(pb[r]) /\ pb[r].live /\ pb'[r] # pb[r]) =>
            Remaining(pb'[r], eventLog') <= Remaining(pb[r], eventLog)]_vars

(* ----------------------------- two replays ----------------------------- *)

\* as Init, in a playing revision, with room for MaxConcurrent invocations of
\* startPlaybackCommand that have not returned
InitTwo ==
    /\ rev \in {"cloned", "inplace"}
    /\ eventLog = <<>>
    /\ isRecording = FALSE
    /\ docs = [f \in UserDocs |-> IF f = FileA THEN <<"x">> ELSE <<>>]
    /\ activeTextEditor = None
    /\ workspaceFolders = TRUE
    /\ pb = [r \in 1..MaxConcurrent |-> IdleReplay]
    /\ notice = NoNotice
    /\ used = [hostEvents |-> 0, playbacks |-> 0, untitled |-> 0]
    /\ startContent = Snapshot
    /\ stopContent = Snapshot

\* a recording session, and then startPlayback given whenever the user
\* likes, also while an earlier replay has not ended; every host operation
\* succeeds
NextTwo ==
    \/ notice = NoNotice /\ startRecordingCommand /\ Quiet
    \/ isRecording /\ stopRecordingCommand /\ Quiet
    \/ BeforeStop /\ UserBudget /\ UserTextChange /\ Quiet
    \/ BeforeStop /\ UserBudget /\ UserFocusChange /\ Quiet
    \/ ~isRecording /\ ~BeforeStop /\ (\E r \in Replays : startPlaybackCommand(r)) /\ Quiet
    \/ \E r \in Replays : CountdownDone(r, TRUE) /\ Quiet
    \/ \E r \in Replays : OpenDone(r) /\ Quiet
    \/ \E r \in Replays : EditDone(r, TRUE) /\ Quiet
    \/ \E r \in Replays : DelayDone(r, TRUE) /\ Quiet

SpecTwo == InitTwo /\ [][NextTwo]_vars

\* C16: at most one replay is between the start of its countdown and its
\* end.
C16_AtMostOneReplay ==
    Cardinality({ r \in Replays : Running(pb[r]) }) <= 1

(* ------------------------- the log a replay walks ----------------------- *)

\* C17: the events a replay has gone through are the first events of the log
\* as it was when startPlaybackCommand was given, and a replay that finished
\* has gone through exactly that log.
C17_ReplaysLogAsAsked ==
    \A r \in Replays :
      LET p == pb[r]
      IN  p.pc \in {"opening", "editing", "delayEdit", "delaySwitch", "failed", "finished"} =>
            /\ p.idx <= Len(p.asked)
            /\ SubSeq(LogOf(p, eventLog), 1, p.idx) = SubSeq(p.asked, 1, p.idx)
            /\ p.pc = "finished" => p.idx = Len(p.asked)

(* -------------------------------- pacing ------------------------------- *)

\* the lengths of the delays of a trace, in order
Delays(t) ==
    LET IsDelay(x) == x.op = "delay"
        d == SelectSeq(t, IsDelay)
    IN  [k \in 1..Len(d) |-> d[k].ms]

\* the iterations of replay p that are over
Over(p) == IF p.idx = 0 \/ IterationOver(p, p.idx) THEN p.idx ELSE p.idx - 1

\* the delay after an event, by its type alone
DelayOf(ev) == IF ev.type = "edit" THEN EditDelay ELSE SwitchDelay

\* C18: a replay that was refused has waited for nothing.  Any other replay
\* has waited the countdown first and once, and then, after each event it is
\* through with, one delay whose length is EditDelay for an EditEvent and
\* SwitchDelay for a SwitchFileEvent, as the last effect of that event; the
\* delays are those and no others, whatever the timestamps are.
C18_Pacing ==
    \A r \in Replays :
      LET p   == pb[r]
          t   == p.trace
          arr == LogOf(p, eventLog)
      IN  IF p.pc \in {"idle", "nothing", "aborted"}
          THEN t = <<>>
          ELSE /\ t # <<>>
               /\ t[1] = [op |-> "delay", i |-> 0, doc |-> None, ms |-> CountdownDelay]
               /\ Delays(t) = <<CountdownDelay>> \o [i \in 1..Over(p) |-> DelayOf(arr[i])]
               /\ \A k \in 2..Len(t) :
                    t[k].op = "delay" => \A j \in 1..Len(t) : t[j].i = t[k].i => j <= k

\* a replay finished a log of an edit, a file switch and an edit recorded at
\* different times: it waited 3000, 50, 200 and 50
C18_Witness ==
    \E r \in Replays :
      /\ pb[r].pc = "finished"
      /\ Len(pb[r].arr) = 3
      /\ pb[r].arr[1].timestamp # pb[r].arr[2].timestamp
      /\ Delays(pb[r].trace) = <<CountdownDelay, EditDelay, SwitchDelay, EditDelay>>

(* ------------------------------- failures ------------------------------ *)

\* C20: a replay that ended with "Playback finished!" had no edit refused by
\* the host (no report of a refused edit exists that could have been made).
C20_NoSilentFailure ==
    \A r \in Replays :
      pb[r].pc = "finished" =>
        \A k \in 1..Len(pb[r].trace) : pb[r].trace[k].op = "edit" => pb[r].trace[k].applied

(* ---------------------- a file named like a clone ---------------------- *)

\* a saved file of the workspace root that bears the name the clone of FileA
\* gets, such as the clone an earlier replay left behind
Leftover == PlaybackPath(FileA)

\* as Init in the cloned revision with a workspace folder, with Leftover among
\* the user's files
InitLeftover ==
    /\ rev = "cloned"
    /\ eventLog = <<>>
    /\ isRecording = FALSE
    /\ docs = (Leftover :> <<>>) @@ [f \in UserDocs |-> IF f = FileA THEN <<"x">> ELSE <<>>]
    /\ activeTextEditor = None
    /\ workspaceFolders = TRUE
    /\ pb = [r \in {1} |-> IdleReplay]
    /\ notice = NoNotice
    /\ used = [hostEvents |-> 0, playbacks |-> 0, untitled |-> 0]
    /\ startContent = Snapshot
    /\ stopContent = Snapshot

\* the user changes Leftover
LeftoverTextChange ==
    /\ Leftover \in DOMAIN docs
    /\ \E changes \in ChangeLists(docs[Leftover], MaxChanges, MaxDocLen) :
         HostTextChange(Leftover, changes)

\* a recorded session and its replay as in NextSession, where the user also
\* works on Leftover before recording stops
NextLeftover ==
    \/ NextSession
    \/ BeforeStop /\ SessionBudget /\ LeftoverTextChange /\ Quiet

SpecLeftover == InitLeftover /\ [][NextLeftover]_vars

\* C21: in the cloned revision no file a replay creates, focuses or edits is
\* the file of an event of the log it walks.
C21_ClonesAreNotOriginals ==
    \A r \in Replays :
      LET t   == pb[r].trace
          arr == LogOf(pb[r], eventLog)
      IN  rev = "cloned" =>
            \A k \in 1..Len(t) :
              t[k].op \in {"create", "focus", "edit"} =>
                \A i \in 1..Len(arr) : t[k].doc # arr[i].file

(* ------------------------ events on a missing file ---------------------- *)

\* the iteration of the i-th event of replay p is past its open
PastOpen(p, i) == i < p.idx \/ (i = p.idx /\ p.pc # "opening")

\* the documents replay p focused after a failed open
Substitutes(p) ==
    { p.trace[k + 1].doc : k \in { j \in 1..(Len(p.trace) - 1) : p.trace[j].op = "openFailed" } }

\* C22: in the in-place revision, once the open of a file has failed in a
\* replay, every later event of that file in the replay has its own failed
\* open of the file, followed by the focus of an untitled substitute of its
\* own that is empty when focused: the replay has focused as many
\* substitutes as it had failed opens.
C22_SubstitutePerEvent ==
    \A r \in Replays :
      LET p   == pb[r]
          t   == p.trace
          arr == LogOf(p, eventLog)
          fails == { k \in 1..Len(t) : t[k].op = "openFailed" }
      IN  rev = "inplace" =>
            /\ \A k \in fails :
                 /\ k < Len(t)
                 /\ t[k].doc = arr[t[k].i].file
                 /\ t[k + 1].op = "focus" /\ t[k + 1].i = t[k].i /\ isUntitled(t[k + 1].doc)
            /\ Cardinality(Substitutes(p)) = Cardinality(fails)
            /\ \A i \in 1..p.idx : \A j \in 1..(i - 1) :
                 ( /\ arr[j].file = arr[i].file
                   /\ Places(t, "openFailed", j) # {}
                   /\ PastOpen(p, i) ) =>
                   Cardinality(Places(t, "openFailed", i)) = 1

\* an in-place replay finished three events of FileB, which was gone: three
\* failed opens and three substitutes
C22_Witness ==
    \E r \in Replays :
      /\ rev = "inplace"
      /\ pb[r].pc = "finished"
      /\ Len(pb[r].arr) = 3
      /\ \A i \in 1..3 : pb[r].arr[i].file = FileB
      /\ \A i \in 1..3 : Places(pb[r].trace, "openFailed", i) # {}
      /\ Cardinality(Substitutes(pb[r])) = 3

====
